---- MODULE Spec2Model ----
(***************************************************************************)
(* Backtesting core of the fund-monitoring backend:                        *)
(*   services/backtest/services/strategies/regular_investment.py           *)
(*   services/backtest/services/strategies/value_averaging.py              *)
(*   services/backtest/services/strategies/base_strategy.py                *)
(*   services/backtest/services/backtest_engine.py                         *)
(*                                                                         *)
(* Conventions.                                                            *)
(*  - Money, shares and NAV prices are exact rationals [n, d] in lowest    *)
(*    terms (the code computes them in binary floating point; rounding     *)
(*    error of the float operations is not modelled).                      *)
(*  - A strategy run is one call of execute_backtest followed by the       *)
(*    result assembly of BacktestEngine._execute_backtest.  The loop body  *)
(*    over historical_data.index is one action per trading day; the row    *)
(*    of the NAV table for that day and its membership in                  *)
(*    investment_dates are the caller's input and are drawn when the loop  *)
(*    reaches the day.                                                     *)
(*  - The database session, the ORM classes and the report file are        *)
(*    collaborators of the engine: a call on them either returns or        *)
(*    raises, chosen by the environment.                                   *)
(***************************************************************************)
EXTENDS Integers, Sequences, FiniteSets, TLC

VARIABLES
    \* ---- one strategy run (execute_backtest + result assembly) ----
    strategy,           \* strategy_type of the run
    config,             \* the BacktestConfig handed to execute_backtest
    config0,            \* the same config as it was when the call was made
    spc,                \* position of the run
    historical_data,    \* rows of the NAV table iterated so far
    investment_dates,   \* indices of iterated trading days that are investment dates
    schedule,           \* investment_dates in order: a trading day index, or 0 for
                        \* a date that has no row in historical_data
    fund_allocation,    \* local fund_allocation: sequence of [fund_code, allocation]
    cash,
    holdings,
    period,
    transactions,
    portfolio_values,
    result,
    \* ---- the engine (BacktestEngine) ----
    is_running,         \* self.is_running
    stats,              \* self.stats
    backtest_results,   \* rows of the backtest_results table
    run,                \* the run_backtest invocations in flight, per slot
    calls,              \* number of run_backtest invocations made
    \* ---- the auth service (AuthService) ----
    users,              \* rows of the users table, by username
    auth_result,        \* the last authenticate_user call and what it returned
    \* ---- the investment dates of a run, as calendar dates ----
    nav_dates,          \* historical_data.index: the dates that have a NAV row
    gen,                \* _generate_investment_dates: its config, locals and position
    valid_dates         \* what validate_investment_schedule returned, or None

svars == <<strategy, config, config0, spc, historical_data, investment_dates,
          schedule, fund_allocation, cash, holdings, period, transactions,
          portfolio_values, result>>

evars == <<is_running, stats, backtest_results, run, calls>>

avars == <<users, auth_result>>

cvars == <<nav_dates, gen, valid_dates>>

vars == <<svars, evars, avars, cvars>>

-----------------------------------------------------------------------------
(* Bounds *)

\* number of trading days of the NAV table
MaxDays == 3

\* number of run_backtest invocations
MaxCalls == 2

-----------------------------------------------------------------------------
(* Exact rational arithmetic *)

Abs(x) == IF x < 0 THEN -x ELSE x

RECURSIVE GCD(_, _)
GCD(a, b) == IF b = 0 THEN a ELSE GCD(b, a % b)

Norm(n, d) ==
    LET g == GCD(Abs(n), d)
    IN  [n |-> n \div g, d |-> d \div g]

Q(n, d) == Norm(n, d)
R(n)    == [n |-> n, d |-> 1]

LCM(a, b) == (a \div GCD(a, b)) * b

RAdd(a, b) ==
    LET L == LCM(a.d, b.d)
    IN  Norm(a.n * (L \div a.d) + b.n * (L \div b.d), L)

RNeg(a) == [n |-> -a.n, d |-> a.d]
RSub(a, b) == RAdd(a, RNeg(b))

RMul(a, b) ==
    LET g1 == GCD(Abs(a.n), b.d)
        g2 == GCD(Abs(b.n), a.d)
    IN  Norm((a.n \div g1) * (b.n \div g2), (a.d \div g2) * (b.d \div g1))

\* b > 0
RDiv(a, b) == RMul(a, [n |-> b.d, d |-> b.n])

RLt(a, b) ==
    LET L == LCM(a.d, b.d)
    IN  a.n * (L \div a.d) < b.n * (L \div b.d)

RLe(a, b) == ~RLt(b, a)
RMin(a, b) == IF RLt(b, a) THEN b ELSE a
RMax(a, b) == IF RLt(a, b) THEN b ELSE a
RAbs(a) == [n |-> Abs(a.n), d |-> a.d]

RECURSIVE RPow(_, _)
RPow(a, k) == IF k = 0 THEN R(1) ELSE RMul(a, RPow(a, k - 1))

Zero == R(0)
One  == R(1)

-----------------------------------------------------------------------------
(* Inputs of a strategy run *)

Funds == {"f1", "f2"}

FundCodeLists == { <<"f1">>, <<"f1", "f2">> }

\* rows of the NAV table (unit NAV per fund); 0 stands for a non-positive price
NavRows ==
    { [f \in Funds |-> 1],
      [f \in Funds |-> IF f = "f1" THEN 16 ELSE 1],
      [f \in Funds |-> IF f = "f1" THEN 1 ELSE 0] }

\* dict.get(key, default)
Get(d, k, dflt) == IF k \in DOMAIN d THEN d[k] ELSE dflt

Leg(f, w) == [fund_code |-> f, allocation |-> w]

\* the fund_allocation dicts a caller supplies, in insertion order
Allocations ==
    { <<>>,
      << Leg("f1", One) >>,
      << Leg("f2", Q(1, 2)), Leg("f1", One) >> }

NoParams == [k \in {} |-> Zero]

Opt(k, Vals) == { k :> v : v \in Vals }

RegularParams ==
    { ((a @@ f) @@ l) @@ ("strategy_type" :> "regular_investment") :
        a \in Opt("investment_amount", {Zero, R(60), R(1000)}) \cup {NoParams},
        f \in Opt("fee_rate", {Zero, Q(1, 100)}),
        l \in Opt("fund_allocation", Allocations) }

ValueAveragingParams ==
    { ((((b @@ g) @@ m) @@ f) @@ l) @@ ("strategy_type" :> "value_averaging") :
        b \in Opt("base_investment", {R(10)}),
        g \in Opt("target_value_growth_rate", {Zero, Q(1, 2), One}),
        m \in { ("min_investment_multiplier" :> Q(1, 10)) @@ ("max_investment_multiplier" :> R(3)),
                ("min_investment_multiplier" :> One) @@ ("max_investment_multiplier" :> One) },
        f \in Opt("fee_rate", {Zero, Q(1, 10)}),
        l \in Opt("fund_allocation", Allocations) }

\* a config object may or may not carry the attribute investment_amount
\* (the BacktestConfig dataclass does not declare it)
Attrs == { NoParams, "investment_amount" :> R(1000) }

\* a single-fund config comes without fund_allocation
Shape(fc, p) == Len(fc) = 1 => p["fund_allocation"] = <<>>

AllConfigs ==
    { [initial_amount |-> a, fund_codes |-> fc, strategy_params |-> p] @@ x :
        a \in {R(1000)}, fc \in FundCodeLists, p \in RegularParams, x \in Attrs }
    \cup
    { [initial_amount |-> a, fund_codes |-> fc, strategy_params |-> p] @@ x :
        a \in {R(10), R(100)}, fc \in FundCodeLists, p \in ValueAveragingParams,
        x \in Attrs }

Configs == { c \in AllConfigs : Shape(c.fund_codes, c.strategy_params) }

-----------------------------------------------------------------------------
(* BaseStrategy helpers *)

RECURSIVE SumOver(_, _)
\* sum of a rational-valued function f over the finite set S
SumOver(f, S) ==
    IF S = {} THEN Zero
    ELSE LET x == CHOOSE y \in S : TRUE
         IN  RAdd(f[x], SumOver(f, S \ {x}))

\* calculate_portfolio_value: sum of shares * nav over the held funds
calculate_portfolio_value(h, nav_prices) ==
    SumOver([f \in Funds |-> RMul(h[f], R(nav_prices[f]))], Funds)

\* create_transaction
create_transaction(date, fund_code, action, amount, shares, nav_price) ==
    [date |-> date, fund_code |-> fund_code, action |-> action,
     amount |-> amount, shares |-> shares, nav_price |-> nav_price]

-----------------------------------------------------------------------------
(* validate_params *)

RegularValidateParams(params) ==
    LET investment_amount == Get(params, "investment_amount", Zero)
        fee_rate == Get(params, "fee_rate", Zero)
    IN  /\ ~RLe(investment_amount, Zero)
        /\ ~(RLt(fee_rate, Zero) \/ RLe(One, fee_rate))

\* variant: the multipliers are only checked for their sign
ValueAveragingValidateParamsNoOrder(params) ==
    LET base_investment == Get(params, "base_investment", Zero)
        growth == Get(params, "target_value_growth_rate", Zero)
        max_multiplier == Get(params, "max_investment_multiplier", One)
        min_multiplier == Get(params, "min_investment_multiplier", One)
    IN  /\ ~RLe(base_investment, Zero)
        /\ ~(RLt(growth, Q(-1, 2)) \/ RLt(Q(1, 2), growth))
        /\ ~(RLe(max_multiplier, Zero) \/ RLe(min_multiplier, Zero))

ValueAveragingValidateParams(params) ==
    LET base_investment == Get(params, "base_investment", Zero)
        growth == Get(params, "target_value_growth_rate", Zero)
        max_multiplier == Get(params, "max_investment_multiplier", One)
        min_multiplier == Get(params, "min_investment_multiplier", One)
    IN  /\ ~RLe(base_investment, Zero)
        /\ ~(RLt(growth, Q(-1, 2)) \/ RLt(Q(1, 2), growth))
        /\ ~(RLe(max_multiplier, Zero) \/ RLe(min_multiplier, Zero))
        /\ ~RLe(max_multiplier, min_multiplier)

validate_params(st, params) ==
    IF st = "regular_investment" THEN RegularValidateParams(params)
    ELSE ValueAveragingValidateParams(params)

-----------------------------------------------------------------------------
(* fund allocation handling at the head of execute_backtest *)

RECURSIVE EqualSplit(_, _)
EqualSplit(codes, n) ==
    IF codes = <<>> THEN <<>>
    ELSE <<Leg(Head(codes), Q(1, n))>> \o EqualSplit(Tail(codes), n)

AllocatedFunds(fa) == { fa[i].fund_code : i \in DOMAIN fa }

RECURSIVE FillMissing(_, _)
\* for fund_code in config.fund_codes: if not in fund_allocation: ... = 0.0
FillMissing(fa, codes) ==
    IF codes = <<>> THEN fa
    ELSE IF Head(codes) \in AllocatedFunds(fa)
         THEN FillMissing(fa, Tail(codes))
         ELSE FillMissing(Append(fa, Leg(Head(codes), Zero)), Tail(codes))

-----------------------------------------------------------------------------
(* RegularInvestmentStrategy.execute_backtest: the per-day loop body *)

\* variant: the leg is not tested against the cash that is left
RegularLegExecutesNoCash(allocation, nav_price, fund_investment, c) ==
    /\ RLt(Zero, allocation)
    /\ nav_price > 0

\* a leg is executed: allocation > 0, positive NAV, enough cash for the leg
RegularLegExecutes(allocation, nav_price, fund_investment, c) ==
    /\ RLt(Zero, allocation)
    /\ nav_price > 0
    /\ RLe(fund_investment, c)

\* variant: the fee is not deducted before the shares are computed
BuySharesNoFee(fund_investment, fee_rate, nav_price) ==
    RDiv(fund_investment, R(nav_price))

\* variant: the after-fee amount is multiplied by the price instead of divided
BuySharesTimesNav(fund_investment, fee_rate, nav_price) ==
    RMul(RMul(fund_investment, RSub(One, fee_rate)), R(nav_price))

\* shares = fund_investment * (1 - fee_rate) / nav_price
BuyShares(fund_investment, fee_rate, nav_price) ==
    RDiv(RMul(fund_investment, RSub(One, fee_rate)), R(nav_price))

\* cash after a buy leg
DebitCash(c, fund_investment) == RSub(c, fund_investment)

\* amount recorded in a buy transaction
BuyAmount(fund_investment, fee_rate) == RMul(fund_investment, RSub(One, fee_rate))

RECURSIVE RegularLegs(_, _, _, _, _, _)
\* for fund_code, allocation in fund_allocation.items(): ...
RegularLegs(i, st, fa, row, d, params) ==
    IF i > Len(fa) THEN st
    ELSE
      LET fund_code == fa[i].fund_code
          allocation == fa[i].allocation
          nav_price == row[fund_code]
          investment_amount == params["investment_amount"]
          fee_rate == Get(params, "fee_rate", Q(1, 1000))
          fund_investment == RMul(investment_amount, allocation)
      IN  IF RegularLegExecutes(allocation, nav_price, fund_investment, st.cash)
          THEN LET shares == BuyShares(fund_investment, fee_rate, nav_price)
                   tx == create_transaction(d, fund_code, "buy",
                             BuyAmount(fund_investment, fee_rate), shares, nav_price)
               IN  RegularLegs(i + 1,
                       [cash |-> DebitCash(st.cash, fund_investment),
                        holdings |-> [st.holdings EXCEPT ![fund_code] = RAdd(@, shares)],
                        transactions |-> Append(st.transactions, tx)],
                       fa, row, d, params)
          ELSE RegularLegs(i + 1, st, fa, row, d, params)

-----------------------------------------------------------------------------
(* ValueAveragingStrategy.execute_backtest: the per-day loop body *)

\* target(t) = initial_amount + base_investment * t * (1 + g)^(t - 1)
TargetValue(initial_amount, base_investment, growth, t) ==
    RAdd(initial_amount,
         RMul(RMul(base_investment, R(t)), RPow(RAdd(One, growth), t - 1)))

\* min(max_investment, max(min_investment, required_investment))
ClampInvestment(required, min_investment, max_investment) ==
    RMin(max_investment, RMax(min_investment, required))

\* variant: the dead band is open, |required| >= base_investment * 0.1 sells
BeyondDeadBandClosed(required, base_investment) ==
    RLe(RMul(base_investment, Q(1, 10)), RAbs(required))

\* dead band of the sell branch: |required| > base_investment * 0.1
BeyondDeadBand(required, base_investment) ==
    RLt(RMul(base_investment, Q(1, 10)), RAbs(required))

\* sell_amount = min(|required|, current_value * 0.2)
SellAmount(required, current_value) ==
    RMin(RAbs(required), RMul(current_value, Q(1, 5)))

\* variant: the sell leg is not guarded by the shares held
CanSellUnguarded(shares_to_sell, available_shares) == TRUE

\* if shares_to_sell <= available_shares
CanSell(shares_to_sell, available_shares) == RLe(shares_to_sell, available_shares)

RECURSIVE ValueBuyLegs(_, _, _, _, _, _, _)
ValueBuyLegs(i, st, fa, row, d, investment_amount, fee_rate) ==
    IF i > Len(fa) THEN st
    ELSE
      LET fund_code == fa[i].fund_code
          allocation == fa[i].allocation
          nav_price == row[fund_code]
          fund_investment == RMul(investment_amount, allocation)
      IN  IF RLt(Zero, allocation) /\ nav_price > 0
          THEN LET shares == BuyShares(fund_investment, fee_rate, nav_price)
                   tx == create_transaction(d, fund_code, "buy",
                             BuyAmount(fund_investment, fee_rate), shares, nav_price)
               IN  ValueBuyLegs(i + 1,
                       [cash |-> DebitCash(st.cash, fund_investment),
                        holdings |-> [st.holdings EXCEPT ![fund_code] = RAdd(@, shares)],
                        transactions |-> Append(st.transactions, tx)],
                       fa, row, d, investment_amount, fee_rate)
          ELSE ValueBuyLegs(i + 1, st, fa, row, d, investment_amount, fee_rate)

RECURSIVE ValueSellLegs(_, _, _, _, _, _, _)
ValueSellLegs(i, st, fa, row, d, sell_amount, fee_rate) ==
    IF i > Len(fa) THEN st
    ELSE
      LET fund_code == fa[i].fund_code
          allocation == fa[i].allocation
          nav_price == row[fund_code]
          fund_sell_value == RMul(sell_amount, allocation)
          available_shares == st.holdings[fund_code]
      IN  IF /\ RLt(Zero, allocation)
             /\ RLt(Zero, available_shares)
             /\ nav_price > 0
             /\ CanSell(RDiv(fund_sell_value, R(nav_price)), available_shares)
          THEN LET shares_to_sell == RDiv(fund_sell_value, R(nav_price))
                   proceeds == RMul(fund_sell_value, RSub(One, fee_rate))
                   tx == create_transaction(d, fund_code, "sell",
                             proceeds, shares_to_sell, nav_price)
               IN  ValueSellLegs(i + 1,
                       [cash |-> RAdd(st.cash, proceeds),
                        holdings |-> [st.holdings EXCEPT
                                        ![fund_code] = RSub(available_shares, shares_to_sell)],
                        transactions |-> Append(st.transactions, tx)],
                       fa, row, d, sell_amount, fee_rate)
          ELSE ValueSellLegs(i + 1, st, fa, row, d, sell_amount, fee_rate)

\* the decision of one investment date, from the state st before it
ValueDecision(st, fa, row, d, t, current_value, cfg) ==
    LET params == cfg.strategy_params
        base_investment == params["base_investment"]
        growth == Get(params, "target_value_growth_rate", Q(1, 100))
        max_mult == Get(params, "max_investment_multiplier", R(3))
        min_mult == Get(params, "min_investment_multiplier", Q(1, 10))
        fee_rate == Get(params, "fee_rate", Q(1, 1000))
        target == TargetValue(cfg.initial_amount, base_investment, growth, t)
        required == RSub(target, current_value)
        max_investment == RMul(base_investment, max_mult)
        min_investment == RMul(base_investment, min_mult)
        investment_amount == ClampInvestment(required, min_investment, max_investment)
    IN  IF RLt(Zero, required)
        THEN IF RLe(investment_amount, st.cash)
             THEN ValueBuyLegs(1, st, fa, row, d, investment_amount, fee_rate)
             ELSE st
        ELSE IF RLt(required, Zero) /\ BeyondDeadBand(required, base_investment)
             THEN IF RLt(Zero, calculate_portfolio_value(st.holdings, row))
                  THEN ValueSellLegs(1, st, fa, row, d,
                           SellAmount(required, current_value), fee_rate)
                  ELSE st
             ELSE st

-----------------------------------------------------------------------------
(* BacktestEngine: state *)

\* run_backtest invocations that may be in flight together
Slots == {"a", "b"}

None == "None"

\* self.strategies
RegisteredStrategies == {"regular_investment", "value_averaging"}

\* rows of the backtest_strategies table: fund_codes column and strategy_params JSON
StrategyTable ==
    [id \in 1..6 |->
        CASE id = 1 -> [fund_codes |-> "f1,f2",
                        strategy_params |-> ("strategy_type" :> "regular_investment")
                                            @@ ("investment_amount" :> R(1000))]
          [] id = 2 -> [fund_codes |-> "",
                        strategy_params |-> ("strategy_type" :> "regular_investment")
                                            @@ ("investment_amount" :> R(1000))]
          [] id = 3 -> [fund_codes |-> "f1",
                        strategy_params |-> ("investment_amount" :> R(1000))]
          [] id = 4 -> [fund_codes |-> "f1",
                        strategy_params |-> ("strategy_type" :> "momentum")
                                            @@ ("investment_amount" :> R(1000))]
          [] id = 5 -> [fund_codes |-> "f1",
                        strategy_params |-> ("strategy_type" :> "regular_investment")
                                            @@ ("investment_amount" :> Zero)]
          [] OTHER  -> [fund_codes |-> "f1,f2",
                        strategy_params |-> ("strategy_type" :> "value_averaging")
                                            @@ ("base_investment" :> R(10))
                                            @@ ("min_investment_multiplier" :> Q(1, 10))
                                            @@ ("max_investment_multiplier" :> R(3))] ]

\* the strategy ids callers pass: 1..6 have a row, 7 has none
StrategyIds == 1..7

\* a date argument: a well-formed 'YYYY-MM-DD' string for day number `day`, or not
DateString(day) == [well_formed |-> TRUE, day |-> day]
BadDateString == [well_formed |-> FALSE, day |-> 0]

Request(id, s, e, amount, freq) ==
    [strategy_id |-> id, start_date |-> s, end_date |-> e,
     initial_amount |-> amount, investment_frequency |-> freq]

ValidRequest == Request(1, DateString(1), DateString(10), 1000, "monthly")

\* the arguments of run_backtest: the valid request, the requests that differ
\* from it in one argument, and requests with several faults
Requests ==
    { ValidRequest }
    \cup { [ValidRequest EXCEPT !.strategy_id = id] : id \in StrategyIds \ {1} }
    \cup { [ValidRequest EXCEPT !.start_date = DateString(s), !.end_date = DateString(e)] :
             <<s, e>> \in { <<10, 5>>, <<10, 10>>, <<1, 1826>>, <<1, 1827>> } }
    \cup { [ValidRequest EXCEPT !.start_date = BadDateString] }
    \cup { [ValidRequest EXCEPT !.initial_amount = 0] }
    \cup { [ValidRequest EXCEPT !.investment_frequency = "yearly"] }
    \cup { Request(7, DateString(10), DateString(5), 1000, "monthly"),
           Request(2, DateString(10), DateString(5), 0, "yearly"),
           Request(2, DateString(1), DateString(10), 0, "yearly") }

NoConfig == [k \in {} |-> 0]

IdleRun ==
    [pc |-> "idle", call |-> 0, request |-> ValidRequest, running_at_call |-> FALSE,
     strategy_config |-> NoConfig, config |-> NoConfig,
     fetch_started |-> FALSE, nav_rows |-> FALSE,
     strategy_started |-> FALSE, strategy_returned |-> FALSE,
     saved |-> FALSE, cause |-> "", ret |-> NoConfig]

\* no investment date has been generated
ScheduleInitial == schedule = <<>>

\* no run whose calendar dates are followed
CalendarInitial ==
    /\ nav_dates = {}
    /\ gen = [pc |-> "idle"]
    /\ valid_dates = <<>>

\* no user row, no authenticate_user call yet
AuthInitial ==
    /\ users = [u \in {} |-> 0]
    /\ auth_result = [called |-> FALSE]

EngineInitial ==
    /\ is_running = FALSE
    /\ stats = [total_backtests |-> 0, successful_backtests |-> 0,
                failed_backtests |-> 0, average_processing_time |-> Zero,
                start_time |-> None]
    /\ backtest_results = <<>>
    /\ run = [r \in Slots |-> IdleRun]
    /\ calls = 0

-----------------------------------------------------------------------------
(* A strategy run *)

\* variant: a value equal to the previous one is not recorded again
RecordValueIfChanged(values, v) ==
    IF values # <<>> /\ values[Len(values)] = v THEN values ELSE Append(values, v)

\* portfolio_values.append(value)
RecordValue(values, v) == Append(values, v)

RunState == [cash |-> cash, holdings |-> holdings, transactions |-> transactions]

InitStrategy ==
    /\ config \in Configs
    /\ config0 = config
    /\ strategy = config.strategy_params["strategy_type"]
    /\ spc = "call"
    /\ historical_data = <<>>
    /\ investment_dates = {}
    /\ fund_allocation = <<>>
    /\ cash = Zero
    /\ holdings = [f \in Funds |-> Zero]
    /\ period = 0
    /\ transactions = <<>>
    /\ portfolio_values = <<>>
    /\ result = [k \in {} |-> Zero]
    /\ EngineInitial
    /\ AuthInitial
    /\ ScheduleInitial
    /\ CalendarInitial

\* validate_params fails: raise ValueError
StrategyRejects ==
    /\ spc = "call"
    /\ ~validate_params(strategy, config.strategy_params)
    /\ spc' = "raised"
    /\ UNCHANGED <<strategy, config, config0, historical_data, investment_dates,
                   fund_allocation, cash, holdings, period, transactions,
                   portfolio_values, result>>
    /\ UNCHANGED <<schedule, evars, avars, cvars>>

\* config.investment_amount is evaluated as the default of .get(): AttributeError
StrategyAttributeError ==
    /\ spc = "call"
    /\ validate_params(strategy, config.strategy_params)
    /\ "investment_amount" \notin DOMAIN config
    /\ spc' = "raised"
    /\ UNCHANGED <<strategy, config, config0, historical_data, investment_dates,
                   fund_allocation, cash, holdings, period, transactions,
                   portfolio_values, result>>
    /\ UNCHANGED <<schedule, evars, avars, cvars>>

\* parameters read, locals initialised, fund allocation prepared
StrategyStart ==
    /\ spc = "call"
    /\ validate_params(strategy, config.strategy_params)
    /\ "investment_amount" \in DOMAIN config
    /\ LET given == Get(config.strategy_params, "fund_allocation", <<>>)
       IN  IF given = <<>>
           THEN /\ fund_allocation' = EqualSplit(config.fund_codes, Len(config.fund_codes))
                /\ config' = config
           ELSE /\ fund_allocation' = FillMissing(given, config.fund_codes)
                /\ config' = [config EXCEPT !.strategy_params.fund_allocation =
                                               FillMissing(given, config.fund_codes)]
    /\ cash' = config.initial_amount
    /\ holdings' = [f \in Funds |-> Zero]
    /\ period' = 0
    /\ transactions' = <<>>
    /\ portfolio_values' = <<>>
    /\ spc' = "loop"
    /\ UNCHANGED <<strategy, config0, historical_data, investment_dates, result>>
    /\ UNCHANGED <<schedule, evars, avars, cvars>>

\* one iteration of `for trading_day in historical_data.index` (regular investment)
RegularDay ==
    /\ spc = "loop"
    /\ strategy = "regular_investment"
    /\ Len(historical_data) < MaxDays
    /\ \E row \in NavRows, scheduled \in BOOLEAN :
         LET d == Len(historical_data) + 1
             st == IF scheduled
                   THEN RegularLegs(1, RunState, fund_allocation, row, d,
                                    config.strategy_params)
                   ELSE RunState
         IN  /\ historical_data' = Append(historical_data, row)
             /\ investment_dates' = IF scheduled THEN investment_dates \cup {d}
                                    ELSE investment_dates
             /\ schedule' = IF scheduled THEN Append(schedule, d) ELSE schedule
             /\ cash' = st.cash
             /\ holdings' = st.holdings
             /\ transactions' = st.transactions
             /\ portfolio_values' =
                    RecordValue(portfolio_values,
                           RAdd(st.cash, calculate_portfolio_value(st.holdings, row)))
    /\ UNCHANGED <<strategy, config, config0, spc, fund_allocation, period, result>>
    /\ UNCHANGED <<evars, avars, cvars>>

\* one iteration of `for trading_day in historical_data.index` (value averaging)
ValueAveragingDay ==
    /\ spc = "loop"
    /\ strategy = "value_averaging"
    /\ Len(historical_data) < MaxDays
    /\ \E row \in NavRows, scheduled \in BOOLEAN :
         LET d == Len(historical_data) + 1
             current_portfolio_value ==
                 RAdd(cash, calculate_portfolio_value(holdings, row))
             st == IF scheduled
                   THEN ValueDecision(RunState, fund_allocation, row, d, period + 1,
                                      current_portfolio_value, config)
                   ELSE RunState
         IN  /\ historical_data' = Append(historical_data, row)
             /\ investment_dates' = IF scheduled THEN investment_dates \cup {d}
                                    ELSE investment_dates
             /\ schedule' = IF scheduled THEN Append(schedule, d) ELSE schedule
             /\ portfolio_values' = RecordValue(portfolio_values, current_portfolio_value)
             /\ period' = IF scheduled THEN period + 1 ELSE period
             /\ cash' = st.cash
             /\ holdings' = st.holdings
             /\ transactions' = st.transactions
    /\ UNCHANGED <<strategy, config, config0, spc, fund_allocation, result>>
    /\ UNCHANGED <<evars, avars, cvars>>

-----------------------------------------------------------------------------
(* Result assembly: BacktestEngine._execute_backtest after the strategy returns *)

RECURSIVE SumAmounts(_)
\* sum(tx['amount'] for tx in transactions)
SumAmounts(txs) ==
    IF txs = <<>> THEN Zero ELSE RAdd(Head(txs).amount, SumAmounts(Tail(txs)))

\* PerformanceCalculator.calculate_performance: total_return
TotalReturn(values) ==
    IF Len(values) < 2 THEN Zero
    ELSE RSub(RDiv(values[Len(values)], values[1]), One)

\* the index is exhausted: the strategy returns and the result is built
StrategyFinish ==
    /\ spc = "loop"
    /\ Len(historical_data) >= 1
    /\ spc' = "done"
    /\ result' = [total_invested |-> SumAmounts(transactions),
                  total_value |-> portfolio_values[Len(portfolio_values)],
                  total_return |-> TotalReturn(portfolio_values)]
    /\ UNCHANGED <<strategy, config, config0, historical_data, investment_dates,
                   fund_allocation, cash, holdings, period, transactions,
                   portfolio_values>>
    /\ UNCHANGED <<schedule, evars, avars, cvars>>

NextStrategy ==
    \/ StrategyRejects
    \/ StrategyAttributeError
    \/ StrategyStart
    \/ RegularDay
    \/ ValueAveragingDay
    \/ StrategyFinish

SpecStrategy == InitStrategy /\ [][NextStrategy]_vars

-----------------------------------------------------------------------------
(* Properties of a strategy run *)

InRun == spc \in {"loop", "done"}

Today == Len(historical_data)

\* the fee rate the run uses
FeeRate == Get(config0.strategy_params, "fee_rate", Q(1, 1000))

Range(seq) == { seq[i] : i \in DOMAIN seq }

\* weight of fund f as the caller stated it (1/n per fund code when none is given)
StatedWeight(cfg, f) ==
    LET given == Get(cfg.strategy_params, "fund_allocation", <<>>)
    IN  IF given = <<>>
        THEN IF f \in Range(cfg.fund_codes) THEN Q(1, Len(cfg.fund_codes)) ELSE Zero
        ELSE IF \E i \in DOMAIN given : given[i].fund_code = f
             THEN given[CHOOSE i \in DOMAIN given : given[i].fund_code = f].allocation
             ELSE Zero

\* transactions recorded on trading day d
TransactionsOn(d) == { i \in DOMAIN transactions : transactions[i].date = d }

\* C1: in every state of a run of either strategy, holdings[f] >= 0 for every
\* fund f (an executed sell never removes more shares than were held).
C1_NoOversell == \A f \in Funds : RLe(Zero, holdings[f])

\* a sell has been executed and left shares of the fund
C1_Witness ==
    /\ InRun
    /\ \E i \in DOMAIN transactions :
         /\ transactions[i].action = "sell"
         /\ RLt(Zero, holdings[transactions[i].fund_code])

\* C6: the portfolio value series has exactly one entry per date of the NAV
\* index, whatever was traded or skipped.
C6_OneValuePerDay == InRun => Len(portfolio_values) = Len(historical_data)

\* a finished run over the whole table with some dates traded, some not
C6_Witness ==
    /\ spc = "done"
    /\ Len(historical_data) = MaxDays
    /\ Len(portfolio_values) = MaxDays
    /\ transactions # <<>>
    /\ \E d \in 1..MaxDays : TransactionsOn(d) = {}

\* C7: the value recorded for a trading day equals cash + sum of shares x nav
\* of that day on the cash and holdings left by the day's transactions.
C7_ValueAfterTrades ==
    (InRun /\ Today >= 1) =>
        portfolio_values[Today] =
            RAdd(cash, calculate_portfolio_value(holdings, historical_data[Today]))

\* C8 (step): with fee_rate = 0 the transactions of a day leave the portfolio
\* value at that day's NAV unchanged.
C8_Step ==
    (InRun /\ FeeRate = Zero /\ Len(historical_data') = Today + 1) =>
        LET row == historical_data'[Today + 1]
        IN  RAdd(cash', calculate_portfolio_value(holdings', row))
              = RAdd(cash, calculate_portfolio_value(holdings, row))

ConstantNav == \A i, j \in DOMAIN historical_data : historical_data[i] = historical_data[j]

\* C8 (state): with fee_rate = 0 and a constant NAV the value series is
\* constant at initial_amount, total_return is 0 and total_invested is the
\* cash deployed.
C8_State ==
    (InRun /\ FeeRate = Zero /\ ConstantNav) =>
        /\ \A i \in DOMAIN portfolio_values : portfolio_values[i] = config0.initial_amount
        /\ spc = "done" =>
             /\ result.total_return = Zero
             /\ result.total_invested = RSub(config0.initial_amount, cash)

\* C8: both parts
C8_FeeFreeValue == [][C8_Step]_vars /\ []C8_State

\* one 1000-unit investment at constant NAV 1 without fee
C8_Witness ==
    /\ spc = "done"
    /\ FeeRate = Zero
    /\ ConstantNav
    /\ Len(historical_data) >= 2
    /\ Len(transactions) = 1
    /\ holdings["f1"] = R(1000)
    /\ result.total_invested = R(1000)
    /\ result.total_return = Zero

\* C9: in RegularInvestment every executed leg for fund f adds
\* investment_amount x w_f x (1 - fee_rate) / nav(f) shares to holdings[f] and
\* debits cash by investment_amount x w_f, w_f being the stated weight.
C9_Step ==
    (spc = "loop" /\ strategy = "regular_investment"
       /\ Len(historical_data') = Today + 1) =>
        LET row == historical_data'[Today + 1]
            new == SubSeq(transactions', Len(transactions) + 1, Len(transactions'))
            bought == { new[i].fund_code : i \in DOMAIN new }
            amount == config0.strategy_params["investment_amount"]
            legCash(f) == RMul(amount, StatedWeight(config0, f))
            legShares(f) == RDiv(RMul(legCash(f), RSub(One, FeeRate)), R(row[f]))
        IN  /\ Len(new) = Cardinality(bought)
            /\ \A i \in DOMAIN new :
                 /\ new[i].action = "buy"
                 /\ new[i].shares = legShares(new[i].fund_code)
            /\ \A f \in Funds :
                 holdings'[f] = IF f \in bought THEN RAdd(holdings[f], legShares(f))
                                ELSE holdings[f]
            /\ cash' = RSub(cash, SumOver([f \in Funds |->
                                   IF f \in bought THEN legCash(f) ELSE Zero], Funds))

C9_RegularLeg == [][C9_Step]_vars

\* amount 1000, weight 1, fee 0.01, NAV 1.0: 990 shares
C9_Witness ==
    /\ strategy = "regular_investment"
    /\ InRun
    /\ FeeRate = Q(1, 100)
    /\ \E i \in DOMAIN transactions :
         /\ transactions[i].fund_code = "f1"
         /\ transactions[i].nav_price = 1
         /\ transactions[i].shares = R(990)
    /\ holdings["f1"] = R(990)
    /\ cash = Zero

\* unnormalised weights: a run whose stated weights sum to 3/2 has traded both legs
C9_WitnessUnnormalised ==
    /\ strategy = "regular_investment"
    /\ InRun
    /\ StatedWeight(config0, "f1") = One
    /\ StatedWeight(config0, "f2") = Q(1, 2)
    /\ RLt(Zero, holdings["f1"])
    /\ RLt(Zero, holdings["f2"])

\* C10: in ValueAveraging, on a scheduled date on which the portfolio holds
\* shares and current_value exceeds target(t) by more than 0.1 x
\* base_investment, at least one sell transaction is recorded on that date.
C10_SellOnOvershoot ==
    (InRun /\ strategy = "value_averaging" /\ Today >= 1 /\ Today \in investment_dates) =>
        LET params == config0.strategy_params
            base_investment == params["base_investment"]
            target == TargetValue(config0.initial_amount, base_investment,
                                  Get(params, "target_value_growth_rate", Q(1, 100)),
                                  period)
            current_value == portfolio_values[Today]
            overshoot == RSub(current_value, target)
        IN  (/\ RLt(RMul(base_investment, Q(1, 10)), overshoot)
             /\ \E f \in Funds : RLt(Zero, holdings[f]))
            => \E i \in TransactionsOn(Today) : transactions[i].action = "sell"

-----------------------------------------------------------------------------
(* BacktestEngine.run_backtest *)

\* 365 * 5
FiveYears == 365 * 5

\* elapsed seconds a clock may report for a run
Durations == {1, 2}

RECURSIVE SplitFrom(_, _, _)
\* str.split(','): the pieces between commas, the empty ones included
SplitFrom(s, i, piece) ==
    IF i > Len(s) THEN << piece >>
    ELSE IF s[i] = "," THEN << piece >> \o SplitFrom(s, i + 1, <<>>)
    ELSE SplitFrom(s, i + 1, Append(piece, s[i]))

Split(s) == SplitFrom(s, 1, <<>>)

\* the characters of a stored fund_codes string
Chars(str) ==
    CASE str = ""      -> <<>>
      [] str = "f1"    -> <<"f", "1">>
      [] str = "f1,f2" -> <<"f", "1", ",", "f", "2">>

\* BacktestConfig(...) as run_backtest builds it
BuildConfig(req, strategy_config) ==
    [strategy_id |-> req.strategy_id,
     start_date |-> req.start_date.day,
     end_date |-> req.end_date.day,
     initial_amount |-> req.initial_amount,
     investment_frequency |-> req.investment_frequency,
     strategy_params |-> strategy_config.strategy_params,
     fund_codes |-> Split(Chars(strategy_config.fund_codes))]

\* variant: equal start and end dates are accepted
ValidationErrorLax(cfg) ==
    IF cfg.start_date > cfg.end_date THEN "date_order"
    ELSE IF cfg.end_date - cfg.start_date > FiveYears THEN "date_span"
    ELSE IF cfg.initial_amount <= 0 THEN "initial_amount"
    ELSE IF Len(cfg.fund_codes) = 0 THEN "fund_codes"
    ELSE IF cfg.investment_frequency \notin {"daily", "weekly", "monthly"} THEN "frequency"
    ELSE IF Get(cfg.strategy_params, "strategy_type", None) \notin RegisteredStrategies
         THEN "strategy_type"
    ELSE "ok"

\* _validate_backtest_config: the first ValueError it raises, or "ok"
ValidationError(cfg) ==
    IF cfg.start_date >= cfg.end_date THEN "date_order"
    ELSE IF cfg.end_date - cfg.start_date > FiveYears THEN "date_span"
    ELSE IF cfg.initial_amount <= 0 THEN "initial_amount"
    ELSE IF Len(cfg.fund_codes) = 0 THEN "fund_codes"
    ELSE IF cfg.investment_frequency \notin {"daily", "weekly", "monthly"} THEN "frequency"
    ELSE IF Get(cfg.strategy_params, "strategy_type", None) \notin RegisteredStrategies
         THEN "strategy_type"
    ELSE "ok"

\* variant: the handler lets the exception propagate
ExceptHandlerReraise(rec, err, duration) ==
    [rec EXCEPT !.pc = "raised", !.cause = err]

\* except Exception as e: the failure object that is returned
ExceptHandler(rec, err, duration) ==
    [rec EXCEPT !.pc = "returned", !.cause = err,
                !.ret = [success |-> FALSE, error |-> err,
                         strategy_id |-> rec.request.strategy_id,
                         duration_seconds |-> duration]]

\* an exception inside the try block of run r, whose record is then rec
Fail(r, rec, err) ==
    /\ \E duration \in Durations :
         run' = [run EXCEPT ![r] = ExceptHandler(rec, err, duration)]
    /\ stats' = [stats EXCEPT !.failed_backtests = @ + 1]

\* BacktestEngine.start
start ==
    /\ is_running' = TRUE
    /\ stats' = [stats EXCEPT !.start_time = "set"]
    /\ UNCHANGED <<backtest_results, run, calls>>
    /\ UNCHANGED <<svars, avars, cvars>>

\* BacktestEngine.stop
stop ==
    /\ is_running' = FALSE
    /\ UNCHANGED <<stats, backtest_results, run, calls>>
    /\ UNCHANGED <<svars, avars, cvars>>

\* run_backtest is called: the is_running check, outside the try block
run_backtest(r) ==
    /\ calls < MaxCalls
    /\ run[r].pc \in {"idle", "returned", "raised"}
    /\ calls' = calls + 1
    /\ \E req \in Requests :
         run' = [run EXCEPT ![r] =
                   IF is_running
                   THEN [IdleRun EXCEPT !.pc = "load", !.call = calls + 1,
                                        !.request = req, !.running_at_call = TRUE]
                   ELSE [IdleRun EXCEPT !.pc = "raised", !.call = calls + 1,
                                        !.request = req,
                                        !.cause = "engine_not_running"]]
    /\ UNCHANGED <<is_running, stats, backtest_results>>
    /\ UNCHANGED <<svars, avars, cvars>>

\* step 1: _load_strategy_config returns the row, or None (no row, or a
\* database error that it logs)
load_strategy_config(r) ==
    /\ run[r].pc = "load"
    /\ \E found \in BOOLEAN :
         /\ found => run[r].request.strategy_id \in DOMAIN StrategyTable
         /\ IF found
            THEN /\ run' = [run EXCEPT ![r].pc = "validate",
                                       ![r].strategy_config =
                                           StrategyTable[run[r].request.strategy_id]]
                 /\ UNCHANGED stats
            ELSE Fail(r, run[r], "strategy_missing")
    /\ UNCHANGED <<is_running, backtest_results, calls>>
    /\ UNCHANGED <<svars, avars, cvars>>

\* steps 2 and 3: the config is built (strptime may raise) and validated
validate_backtest_config(r) ==
    /\ run[r].pc = "validate"
    /\ LET req == run[r].request
           cfg == BuildConfig(req, run[r].strategy_config)
       IN  IF ~(req.start_date.well_formed /\ req.end_date.well_formed)
           THEN Fail(r, run[r], "date_format")
           ELSE IF ValidationError(cfg) # "ok"
           THEN Fail(r, run[r], ValidationError(cfg))
           ELSE /\ run' = [run EXCEPT ![r].pc = "fetch", ![r].config = cfg]
                /\ UNCHANGED stats
    /\ UNCHANGED <<is_running, backtest_results, calls>>
    /\ UNCHANGED <<svars, avars, cvars>>

\* step 4: _get_historical_data: the query runs and yields rows, no rows, or fails
get_historical_data(r) ==
    /\ run[r].pc = "fetch"
    /\ \E outcome \in {"rows", "no_nav_data", "data_error"} :
         IF outcome = "rows"
         THEN /\ run' = [run EXCEPT ![r].pc = "execute", ![r].fetch_started = TRUE,
                                    ![r].nav_rows = TRUE]
              /\ UNCHANGED stats
         ELSE Fail(r, [run[r] EXCEPT !.fetch_started = TRUE], outcome)
    /\ UNCHANGED <<is_running, backtest_results, calls>>
    /\ UNCHANGED <<svars, avars, cvars>>

\* step 5: _execute_backtest: the strategy raises when validate_params rejects
\* the parameters and may raise later; otherwise the result is built
execute_backtest(r) ==
    /\ run[r].pc = "execute"
    /\ LET params == run[r].config.strategy_params
           strategy_type == Get(params, "strategy_type", "regular_investment")
           started == [run[r] EXCEPT !.strategy_started = TRUE]
       IN  \E raises \in BOOLEAN :
             /\ ~validate_params(strategy_type, params) => raises
             /\ IF raises
                THEN Fail(r, started, "strategy_error")
                ELSE /\ run' = [run EXCEPT ![r] =
                                  [started EXCEPT !.pc = "save",
                                                  !.strategy_returned = TRUE]]
                     /\ UNCHANGED stats
    /\ UNCHANGED <<is_running, backtest_results, calls>>
    /\ UNCHANGED <<svars, avars, cvars>>

\* step 6: _save_backtest_result: the row is committed, or the session raises
save_backtest_result(r) ==
    /\ run[r].pc = "save"
    /\ \E committed \in BOOLEAN :
         IF committed
         THEN /\ backtest_results' =
                     Append(backtest_results,
                            [id |-> Len(backtest_results) + 1,
                             strategy_id |-> run[r].config.strategy_id,
                             call |-> run[r].call])
              /\ run' = [run EXCEPT ![r].pc = "report", ![r].saved = TRUE]
              /\ UNCHANGED stats
         ELSE /\ Fail(r, run[r], "persistence_error")
              /\ UNCHANGED backtest_results
    /\ UNCHANGED <<is_running, calls>>
    /\ UNCHANGED <<svars, avars, cvars>>

\* step 7 and the return: the report (its errors are logged and dropped), the
\* stats.update whose new values are computed from the old stats, the summary
generate_backtest_report(r) ==
    /\ run[r].pc = "report"
    /\ IF stats.total_backtests = 0
       THEN Fail(r, run[r], "division_by_zero")
       ELSE \E duration \in Durations :
              /\ stats' = [stats EXCEPT
                    !.total_backtests = @ + 1,
                    !.successful_backtests = @ + 1,
                    !.average_processing_time =
                        RDiv(RAdd(RMul(@, R(stats.total_backtests - 1)), R(duration)),
                             R(stats.total_backtests))]
              /\ run' = [run EXCEPT ![r].pc = "returned",
                                    ![r].ret = [success |-> TRUE,
                                                result_id |-> Len(backtest_results),
                                                strategy_id |-> run[r].request.strategy_id,
                                                duration_seconds |-> duration]]
    /\ UNCHANGED <<is_running, backtest_results, calls>>
    /\ UNCHANGED <<svars, avars, cvars>>

InitEngine ==
    /\ EngineInitial
    /\ AuthInitial
    /\ ScheduleInitial
    /\ CalendarInitial
    /\ strategy = None
    /\ config = NoConfig
    /\ config0 = NoConfig
    /\ spc = "idle"
    /\ historical_data = <<>>
    /\ investment_dates = {}
    /\ fund_allocation = <<>>
    /\ cash = Zero
    /\ holdings = [f \in Funds |-> Zero]
    /\ period = 0
    /\ transactions = <<>>
    /\ portfolio_values = <<>>
    /\ result = [k \in {} |-> Zero]

NextEngine ==
    \/ start
    \/ stop
    \/ \E r \in Slots : run_backtest(r)
    \/ \E r \in Slots : load_strategy_config(r)
    \/ \E r \in Slots : validate_backtest_config(r)
    \/ \E r \in Slots : get_historical_data(r)
    \/ \E r \in Slots : execute_backtest(r)
    \/ \E r \in Slots : save_backtest_result(r)
    \/ \E r \in Slots : generate_backtest_report(r)

SpecEngine == InitEngine /\ [][NextEngine]_vars

-----------------------------------------------------------------------------
(* Properties of run_backtest *)

Finished(r) == run[r].pc \in {"returned", "raised"}

\* the persisted rows that belong to the invocation in slot r
RowsOf(r) == { i \in 1..Len(backtest_results) : backtest_results[i].call = run[r].call }

FailureCauses ==
    {"strategy_missing", "date_format", "date_order", "date_span", "initial_amount",
     "fund_codes", "frequency", "strategy_type", "no_nav_data", "data_error",
     "strategy_error", "persistence_error", "division_by_zero"}

\* the failure object of the spec: success=false, an error, the elapsed duration
StructuredFailure(rec) ==
    /\ rec.pc = "returned"
    /\ {"success", "error", "duration_seconds"} \subseteq DOMAIN rec.ret
    /\ rec.ret.success = FALSE
    /\ rec.ret.error = rec.cause
    /\ rec.ret.duration_seconds \in Durations

\* C2 (as stated): every invocation of run_backtest, whatever the engine state
\* and the failure cause, ends by returning a structured failure object and
\* never by raising past the call boundary
C2_NeverRaises ==
    \A r \in Slots :
        /\ run[r].pc # "raised"
        /\ (Finished(r) /\ run[r].cause # "") => StructuredFailure(run[r])

\* C2 (amended): an invocation made while the engine is running ends every
\* failure, whatever its cause, by returning a structured failure object and
\* counting it in failed_backtests; an invocation made while the engine is not
\* running raises RuntimeError before any step of the run
C2_StartedEngineReturnsFailure ==
    \A r \in Slots :
        /\ (run[r].running_at_call /\ Finished(r) /\ run[r].cause # "")
               => StructuredFailure(run[r])
        /\ (run[r].running_at_call /\ run[r].cause # "") => run[r].cause \in FailureCauses
        /\ (run[r].pc # "idle" /\ ~run[r].running_at_call)
               => /\ run[r].pc = "raised"
                  /\ run[r].cause = "engine_not_running"
                  /\ ~run[r].fetch_started /\ ~run[r].strategy_started /\ ~run[r].saved

\* two runs on a started engine have failed at different steps, one of them after
\* the engine was stopped again
C2_Witness ==
    /\ ~is_running
    /\ run["a"].running_at_call /\ run["b"].running_at_call
    /\ StructuredFailure(run["a"]) /\ run["a"].cause = "persistence_error"
    /\ StructuredFailure(run["b"]) /\ run["b"].cause = "no_nav_data"

\* the premise of C3: started engine, config valid, parameters valid, NAV rows
\* returned, result persisted
C3_Premise(r) ==
    /\ run[r].running_at_call
    /\ run[r].config # NoConfig
    /\ ValidationError(run[r].config) = "ok"
    /\ validate_params(Get(run[r].config.strategy_params, "strategy_type",
                           "regular_investment"),
                       run[r].config.strategy_params)
    /\ run[r].nav_rows
    /\ run[r].strategy_returned
    /\ run[r].saved

\* C3: a run on a started engine with a valid config, valid strategy parameters,
\* NAV rows and a successful persistence step returns success=true, with exactly
\* one persisted result for the run
C3_ValidRunCompletes ==
    \A r \in Slots :
        (Finished(r) /\ C3_Premise(r))
            => /\ run[r].pc = "returned"
               /\ run[r].ret.success = TRUE
               /\ Cardinality(RowsOf(r)) = 1

BadDates(req) ==
    /\ req.start_date.well_formed
    /\ req.end_date.well_formed
    /\ \/ req.start_date.day >= req.end_date.day
       \/ req.end_date.day - req.start_date.day > FiveYears

FundCodeSet(cfg) == { cfg.fund_codes[i] : i \in 1..Len(cfg.fund_codes) } \ { <<>> }

\* C5: a run reaches the NAV fetch only with initial_amount > 0, a non-empty
\* set of fund codes, a declared frequency and a registered strategy type
C5_RunningOnlyIfPreconditions ==
    \A r \in Slots :
        (run[r].pc \in {"fetch", "execute", "save", "report"} \/ run[r].fetch_started)
            => /\ run[r].config.initial_amount > 0
               /\ FundCodeSet(run[r].config) # {}
               /\ run[r].config.investment_frequency \in {"daily", "weekly", "monthly"}
               /\ Get(run[r].config.strategy_params, "strategy_type", None)
                      \in RegisteredStrategies

-----------------------------------------------------------------------------
(* PerformanceCalculator *)

\* longest portfolio value series handed to the calculator
MaxPoints == 4

\* the portfolio values a series is drawn from: 0.6, 0.9, 1.0, 1.2
PortfolioValueSet == { Q(6, 10), Q(9, 10), One, Q(12, 10) }

\* float('nan')
NaN == [kind |-> "nan"]

\* a finite float that is not rational: sign * sqrt-or-power expression over `of`
Irrational(sign, of) == [kind |-> "num", sign |-> sign, of |-> of]

Sgn(x) == IF x.n > 0 THEN 1 ELSE IF x.n < 0 THEN -1 ELSE 0

IsNaN(x) == "kind" \in DOMAIN x /\ x.kind = "nan"

\* x == 0 as Python evaluates it (False for NaN)
IsZero(x) == IF "kind" \in DOMAIN x THEN x.kind = "num" /\ x.sign = 0 ELSE x.n = 0

IsFinite(x) == ~IsNaN(x)

RECURSIVE RSum(_)
RSum(xs) == IF xs = <<>> THEN Zero ELSE RAdd(Head(xs), RSum(Tail(xs)))

\* Series.mean()
Mean(xs) == RDiv(RSum(xs), R(Len(xs)))

\* portfolio_values.pct_change().dropna()
PctChange(values) ==
    [i \in 1..(Len(values) - 1) |-> RSub(RDiv(values[i + 1], values[i]), One)]

\* the square of Series.std() (ddof = 1); NaN for fewer than two elements
Variance(xs) ==
    IF Len(xs) < 2 THEN NaN
    ELSE LET m == Mean(xs)
         IN  RDiv(RSum([i \in 1..Len(xs) |-> RMul(RSub(xs[i], m), RSub(xs[i], m))]),
                  R(Len(xs) - 1))

\* Series.std() * np.sqrt(252)
AnnualisedStd(xs) ==
    LET v == Variance(xs)
    IN  IF IsNaN(v) THEN NaN
        ELSE IF v.n = 0 THEN Zero
        ELSE Irrational(1, <<"std*sqrt(252)", v>>)

\* variant: the maximum of the whole series instead of the expanding maximum
RollingMaxGlobal(values, i) ==
    CHOOSE m \in Range(values) : \A x \in Range(values) : RLe(x, m)

RECURSIVE RollingMax(_, _)
\* values.expanding().max() at position i
RollingMax(values, i) ==
    IF i = 1 THEN values[1] ELSE RMax(RollingMax(values, i - 1), values[i])

RECURSIVE MinFrom(_, _)
\* Series.min()
MinFrom(xs, i) == IF i = Len(xs) THEN xs[i] ELSE RMin(xs[i], MinFrom(xs, i + 1))

\* _calculate_max_drawdown
calculate_max_drawdown(values) ==
    IF Len(values) < 2 THEN Zero
    ELSE LET drawdown == [i \in 1..Len(values) |->
                             RDiv(RSub(values[i], RollingMax(values, i)),
                                  RollingMax(values, i))]
         IN  MinFrom(drawdown, 1)

IsNegative(x) == RLt(x, Zero)
IsPositive(x) == RLt(Zero, x)

\* _calculate_downside_deviation
calculate_downside_deviation(returns) ==
    LET downside_returns == SelectSeq(returns, IsNegative)
    IN  IF Len(downside_returns) = 0 THEN Zero
        ELSE AnnualisedStd(downside_returns)

\* risk_free_rate / 252 with risk_free_rate = 0.03
DailyRiskFree == Q(3, 25200)

ExcessReturns(returns) == [i \in 1..Len(returns) |-> RSub(returns[i], DailyRiskFree)]

\* variant: a NaN deviation is treated like a zero one
SharpeRatioGuarded(returns) ==
    IF Len(returns) = 0 THEN Zero
    ELSE LET std == AnnualisedStd(ExcessReturns(returns))
         IN  IF IsNaN(std) \/ IsZero(std) THEN Zero
             ELSE Irrational(Sgn(Mean(ExcessReturns(returns))),
                             <<"mean/std*sqrt(252)", Mean(ExcessReturns(returns)), std>>)

\* _calculate_sharpe_ratio
calculate_sharpe_ratio(returns) ==
    IF Len(returns) = 0 THEN Zero
    ELSE LET std == AnnualisedStd(ExcessReturns(returns))
         IN  IF IsZero(std) THEN Zero
             ELSE IF IsNaN(std) THEN NaN
             ELSE Irrational(Sgn(Mean(ExcessReturns(returns))),
                             <<"mean/std*sqrt(252)", Mean(ExcessReturns(returns)), std>>)

\* _calculate_sortino_ratio
calculate_sortino_ratio(returns, downside_deviation) ==
    IF Len(returns) = 0 \/ IsZero(downside_deviation) THEN Zero
    ELSE IF IsNaN(downside_deviation) THEN NaN
    ELSE Irrational(Sgn(Mean(ExcessReturns(returns))),
                    <<"mean/dd*sqrt(252)", Mean(ExcessReturns(returns)), downside_deviation>>)

\* _calculate_annualized_return: (1 + total_return) ** (1 / years) - 1, years > 0
calculate_annualized_return(values) ==
    IF TotalReturn(values).n = 0 THEN Zero
    ELSE Irrational(Sgn(TotalReturn(values)), <<"annualized", TotalReturn(values)>>)

\* annualized_return / abs(max_drawdown) if max_drawdown != 0 else 0
CalmarRatio(annualized_return, max_drawdown) ==
    IF max_drawdown.n = 0 THEN Zero
    ELSE IF IsZero(annualized_return) THEN Zero
    ELSE Irrational(annualized_return.sign, <<"calmar", annualized_return, max_drawdown>>)

\* _calculate_win_rate
calculate_win_rate(returns) ==
    IF Len(returns) = 0 THEN Zero
    ELSE Q(Len(SelectSeq(returns, IsPositive)), Len(returns))

RECURSIVE RemoveFirst(_, _)
RemoveFirst(xs, x) ==
    IF xs = <<>> THEN <<>>
    ELSE IF Head(xs) = x THEN Tail(xs)
    ELSE <<Head(xs)>> \o RemoveFirst(Tail(xs), x)

\* _calculate_var: np.percentile(returns, 5), linear interpolation between the
\* two smallest returns (the position 0.05 * (n - 1) lies below 1 for n <= 20)
calculate_var(returns) ==
    IF Len(returns) = 0 THEN Zero
    ELSE IF Len(returns) = 1 THEN returns[1]
    ELSE LET lowest == MinFrom(returns, 1)
             rest == RemoveFirst(returns, lowest)
             next == MinFrom(rest, 1)
         IN  RAdd(lowest, RMul(Q(5 * (Len(returns) - 1), 100), RSub(next, lowest)))

\* _calculate_cvar
calculate_cvar(returns) ==
    IF Len(returns) = 0 THEN Zero
    ELSE LET var == calculate_var(returns)
             AtMostVar(x) == RLe(x, var)
             tail_losses == SelectSeq(returns, AtMostVar)
         IN  IF Len(tail_losses) = 0 THEN var ELSE Mean(tail_losses)

\* _empty_performance_metrics
empty_performance_metrics ==
    [total_return |-> Zero, annualized_return |-> Zero, volatility |-> Zero,
     max_drawdown |-> Zero, sharpe_ratio |-> Zero, sortino_ratio |-> Zero,
     win_rate |-> Zero, alpha |-> Zero, beta |-> Zero,
     error |-> "Insufficient data"]

\* calculate_performance(portfolio_values) without benchmark data
PerformanceMetrics(values) ==
    IF Len(values) < 2 THEN empty_performance_metrics
    ELSE LET returns == PctChange(values)
             max_drawdown == calculate_max_drawdown(values)
             downside_deviation == calculate_downside_deviation(returns)
             annualized_return == calculate_annualized_return(values)
         IN  [total_return |-> TotalReturn(values),
              annualized_return |-> annualized_return,
              volatility |-> AnnualisedStd(returns),
              max_drawdown |-> max_drawdown,
              downside_deviation |-> downside_deviation,
              var_95 |-> calculate_var(returns),
              cvar_95 |-> calculate_cvar(returns),
              sharpe_ratio |-> calculate_sharpe_ratio(returns),
              sortino_ratio |-> calculate_sortino_ratio(returns, downside_deviation),
              calmar_ratio |-> CalmarRatio(annualized_return, max_drawdown),
              information_ratio |-> Zero,
              win_rate |-> calculate_win_rate(returns),
              alpha |-> Zero, beta |-> Zero,
              total_days |-> Len(values), trading_days |-> Len(returns)]

InitPerformance ==
    /\ EngineInitial
    /\ AuthInitial
    /\ ScheduleInitial
    /\ CalendarInitial
    /\ strategy = None
    /\ config = NoConfig
    /\ config0 = NoConfig
    /\ spc = "series"
    /\ historical_data = <<>>
    /\ investment_dates = {}
    /\ fund_allocation = <<>>
    /\ cash = Zero
    /\ holdings = [f \in Funds |-> Zero]
    /\ period = 0
    /\ transactions = <<>>
    /\ portfolio_values = <<>>
    /\ result = [k \in {} |-> Zero]

\* the caller's series grows by one trading day
AppendValue ==
    /\ spc = "series"
    /\ Len(portfolio_values) < MaxPoints
    /\ \E v \in PortfolioValueSet : portfolio_values' = Append(portfolio_values, v)
    /\ UNCHANGED <<strategy, config, config0, spc, historical_data, investment_dates,
                   fund_allocation, cash, holdings, period, transactions, result>>
    /\ UNCHANGED <<schedule, evars, avars, cvars>>

\* PerformanceCalculator.calculate_performance
calculate_performance ==
    /\ spc = "series"
    /\ result' = PerformanceMetrics(portfolio_values)
    /\ spc' = "metrics"
    /\ UNCHANGED <<strategy, config, config0, historical_data, investment_dates,
                   fund_allocation, cash, holdings, period, transactions,
                   portfolio_values>>
    /\ UNCHANGED <<schedule, evars, avars, cvars>>

NextPerformance ==
    \/ AppendValue
    \/ calculate_performance

SpecPerformance == InitPerformance /\ [][NextPerformance]_vars

-----------------------------------------------------------------------------
(* Properties of the performance metrics *)

Calculated == spc = "metrics"

\* the numeric metrics the claims name
NumericMetrics ==
    {"total_return", "annualized_return", "volatility", "max_drawdown", "sharpe_ratio",
     "sortino_ratio", "calmar_ratio", "win_rate", "var_95", "cvar_95", "alpha", "beta"}

\* C11: for a series of length 0 or 1 the metrics object carries every numeric
\* metric with value 0 and an insufficient-data flag
C11_EmptyMetrics ==
    (Calculated /\ Len(portfolio_values) < 2)
        => /\ \A k \in NumericMetrics : k \in DOMAIN result /\ IsZero(result[k])
           /\ \/ "insufficient_data" \in DOMAIN result
              \/ "error" \in DOMAIN result /\ result.error = "Insufficient data"

\* C12: for a series of length >= 2 every ratio is finite, and 0 whenever the
\* statistic it divides by is zero
C12_RatiosFinite ==
    (Calculated /\ Len(portfolio_values) >= 2)
        => \A k \in {"sharpe_ratio", "sortino_ratio", "calmar_ratio", "information_ratio"} :
              IsFinite(result[k])

\* the expanding maximum, as a set maximum
RunningMax(values, i) ==
    CHOOSE m \in { values[j] : j \in 1..i } : \A j \in 1..i : RLe(values[j], m)

Drawdowns(values) ==
    { RDiv(RSub(values[i], RunningMax(values, i)), RunningMax(values, i)) :
        i \in 1..Len(values) }

NeverFalls(values) ==
    \A i, j \in 1..Len(values) : i < j => RLe(values[i], values[j])

\* C13: for a series of >= 2 positive values max_drawdown is the least
\* (values[i] - M_i) / M_i, it is <= 0, and it is 0 exactly when the series
\* never falls below an earlier value
C13_MaxDrawdown ==
    (Calculated /\ Len(portfolio_values) >= 2)
        => /\ result.max_drawdown \in Drawdowns(portfolio_values)
           /\ \A x \in Drawdowns(portfolio_values) : RLe(result.max_drawdown, x)
           /\ RLe(result.max_drawdown, Zero)
           /\ (result.max_drawdown = Zero) <=> NeverFalls(portfolio_values)

\* the series 1.0, 1.2, 0.6, 0.9 has max_drawdown -0.5
C13_Witness ==
    /\ Calculated
    /\ portfolio_values = << One, Q(12, 10), Q(6, 10), Q(9, 10) >>
    /\ result.max_drawdown = Q(-1, 2)

-----------------------------------------------------------------------------
(* Concurrent strategy runs on one engine: each run_backtest invocation calls
   execute_backtest of the shared strategy instance with its own config; the
   frame of a call holds its local variables *)

\* trading days of each of the interleaved runs
MaxInterleavedDays == 2

\* the configs of the interleaved runs: one per strategy, two funds, the whole
\* allocation on f1
InterleavedConfigs ==
    { [initial_amount |-> R(1000), fund_codes |-> <<"f1", "f2">>,
       investment_amount |-> R(1000),
       strategy_params |-> [strategy_type |-> "regular_investment",
                            investment_amount |-> R(60), fee_rate |-> Zero,
                            fund_allocation |-> << Leg("f1", One) >>]],
      [initial_amount |-> R(100), fund_codes |-> <<"f1", "f2">>,
       investment_amount |-> R(1000),
       strategy_params |-> [strategy_type |-> "value_averaging",
                            base_investment |-> R(10), fee_rate |-> Zero,
                            target_value_growth_rate |-> Zero,
                            min_investment_multiplier |-> Q(1, 10),
                            max_investment_multiplier |-> R(3),
                            fund_allocation |-> << Leg("f1", One) >>]] }

\* the NAV rows of the interleaved runs
InterleavedRows == { row \in NavRows : row["f2"] = 1 }

\* variant: the period counter is kept on the strategy instance the runs share
PeriodOfInstance(frame) ==
    LET same == { r \in Slots : /\ run[r].pc = "loop"
                                /\ run[r].strategy = frame.strategy }
        RECURSIVE Total(_)
        Total(S) == IF S = {} THEN 0
                    ELSE LET r == CHOOSE x \in S : TRUE
                         IN  run[r].period + Total(S \ {r})
    IN  Total(same)

\* period is a local variable of execute_backtest
PeriodOf(frame) == frame.period

\* the locals of execute_backtest after the parameters are read
StartFrame(cfg) ==
    LET given == Get(cfg.strategy_params, "fund_allocation", <<>>)
    IN  [pc |-> "loop",
         strategy |-> cfg.strategy_params["strategy_type"],
         config |-> cfg,
         fund_allocation |-> IF given = <<>>
                             THEN EqualSplit(cfg.fund_codes, Len(cfg.fund_codes))
                             ELSE FillMissing(given, cfg.fund_codes),
         cash |-> cfg.initial_amount,
         holdings |-> [f \in Funds |-> Zero],
         period |-> 0,
         transactions |-> <<>>,
         portfolio_values |-> <<>>,
         historical_data |-> <<>>,
         investment_dates |-> {}]

\* one iteration of the trading-day loop on the locals of one call
DayFrame(frame, row, scheduled) ==
    LET d == Len(frame.historical_data) + 1
        st0 == [cash |-> frame.cash, holdings |-> frame.holdings,
                transactions |-> frame.transactions]
        before == RAdd(frame.cash, calculate_portfolio_value(frame.holdings, row))
        st == IF ~scheduled THEN st0
              ELSE IF frame.strategy = "regular_investment"
              THEN RegularLegs(1, st0, frame.fund_allocation, row, d,
                               frame.config.strategy_params)
              ELSE ValueDecision(st0, frame.fund_allocation, row, d,
                                 PeriodOf(frame) + 1, before, frame.config)
        after == RAdd(st.cash, calculate_portfolio_value(st.holdings, row))
    IN  [frame EXCEPT
           !.historical_data = Append(@, row),
           !.investment_dates = IF scheduled THEN @ \cup {d} ELSE @,
           !.cash = st.cash,
           !.holdings = st.holdings,
           !.transactions = st.transactions,
           !.period = IF scheduled /\ frame.strategy = "value_averaging"
                      THEN PeriodOf(frame) + 1 ELSE @,
           !.portfolio_values =
                RecordValue(@, IF frame.strategy = "regular_investment"
                               THEN after ELSE before)]

\* a run_backtest invocation reaches strategy.execute_backtest
InterleavedStart(r) ==
    /\ run[r].pc = "idle"
    /\ \E cfg \in InterleavedConfigs : run' = [run EXCEPT ![r] = StartFrame(cfg)]
    /\ UNCHANGED <<is_running, stats, backtest_results, calls>>
    /\ UNCHANGED <<svars, avars, cvars>>

\* the run in slot r processes its next trading day (its index may end after
\* any day)
InterleavedDay(r) ==
    /\ run[r].pc = "loop"
    /\ Len(run[r].historical_data) < MaxInterleavedDays
    /\ \E row \in InterleavedRows, scheduled \in BOOLEAN :
         run' = [run EXCEPT ![r] = DayFrame(run[r], row, scheduled)]
    /\ UNCHANGED <<is_running, stats, backtest_results, calls>>
    /\ UNCHANGED <<svars, avars, cvars>>

NextInterleaved ==
    \/ \E r \in Slots : InterleavedStart(r)
    \/ \E r \in Slots : InterleavedDay(r)

SpecInterleaved == InitEngine /\ [][NextInterleaved]_vars

RECURSIVE Alone(_, _, _, _)
\* the same run executed alone: the days of data from day i on, one after another
Alone(frame, data, dates, i) ==
    IF i > Len(data) THEN frame
    ELSE Alone(DayFrame(frame, data[i], i \in dates), data, dates, i + 1)

Outputs(frame) == <<frame.transactions, frame.portfolio_values>>

-----------------------------------------------------------------------------
(* Further properties of a strategy run *)

\* C15: execute_backtest leaves the config it is given unchanged, the
\* fund_allocation map inside strategy_params included
C15_ConfigUnchanged == config = config0

\* value averaging parameters with every bounded knob given, absent, at its
\* bounds and outside them
WideValueAveragingParams ==
    { ((((b @@ g) @@ mx) @@ mn) @@ f) @@ ("strategy_type" :> "value_averaging") :
        b \in Opt("base_investment", {R(10)}),
        f \in Opt("fee_rate", {Zero}),
        g \in Opt("target_value_growth_rate",
                  {R(-1), Q(-1, 2), Zero, Q(1, 2), Q(3, 5)}) \cup {NoParams},
        mx \in Opt("max_investment_multiplier", {Q(1, 20), Q(1, 2), R(3)}) \cup {NoParams},
        mn \in Opt("min_investment_multiplier",
                   {R(-1), Zero, Q(1, 10), Q(1, 2), R(2)}) \cup {NoParams} }

WideValueAveragingConfigs ==
    { [initial_amount |-> R(100), fund_codes |-> <<"f1">>, strategy_params |-> p] @@ x :
        p \in WideValueAveragingParams, x \in Attrs }

InitValidation ==
    /\ config \in WideValueAveragingConfigs
    /\ config0 = config
    /\ strategy = "value_averaging"
    /\ spc = "call"
    /\ historical_data = <<>>
    /\ investment_dates = {}
    /\ fund_allocation = <<>>
    /\ cash = Zero
    /\ holdings = [f \in Funds |-> Zero]
    /\ period = 0
    /\ transactions = <<>>
    /\ portfolio_values = <<>>
    /\ result = [k \in {} |-> Zero]
    /\ EngineInitial
    /\ AuthInitial
    /\ ScheduleInitial
    /\ CalendarInitial

NextValidation ==
    \/ StrategyRejects
    \/ StrategyAttributeError
    \/ StrategyStart
    \/ ValueAveragingDay
    \/ StrategyFinish

SpecValidation == InitValidation /\ [][NextValidation]_vars

\* the values the run reads at value_averaging.py:43-45 break the declared bounds
UsedViolates(params) ==
    LET growth == Get(params, "target_value_growth_rate", Q(1, 100))
        max_mult == Get(params, "max_investment_multiplier", R(3))
        min_mult == Get(params, "min_investment_multiplier", Q(1, 10))
    IN  ~(/\ RLt(min_mult, max_mult)
          /\ RLt(Zero, min_mult)
          /\ RLe(Q(-1, 2), growth)
          /\ RLe(growth, Q(1, 2)))

\* C16: a value averaging run whose multipliers or growth rate, as the run would
\* use them, break max > min > 0 or -0.5 <= g <= 0.5 fails at validation, before
\* the first trading day; no run trades with such values
C16_InvalidParamsRejected ==
    /\ UsedViolates(config0.strategy_params)
           => ~validate_params("value_averaging", config0.strategy_params)
    /\ (spc # "call" /\ UsedViolates(config0.strategy_params))
           => /\ spc = "raised"
              /\ historical_data = <<>>
              /\ portfolio_values = <<>>
              /\ transactions = <<>>
              /\ cash = Zero
              /\ \A f \in Funds : holdings[f] = Zero
    /\ (InRun \/ transactions # <<>>) => ~UsedViolates(config0.strategy_params)

\* a run was rejected whose given maximum lies below the default minimum
C16_Witness ==
    /\ spc = "raised"
    /\ "min_investment_multiplier" \notin DOMAIN config0.strategy_params
    /\ "max_investment_multiplier" \in DOMAIN config0.strategy_params
    /\ UsedViolates(config0.strategy_params)
    /\ "investment_amount" \in DOMAIN config0

-----------------------------------------------------------------------------
(* AuthService *)

Usernames == {"alice", "bob"}

Passwords == {"pw1", "pw2"}

\* pwd_context.hash(password)
get_password_hash(password) == <<"bcrypt", password>>

\* pwd_context.verify(plain_password, hashed_password)
verify_password(plain_password, hashed_password) ==
    hashed_password = get_password_hash(plain_password)

\* create_user: a new row with is_active=True, unless the username exists
\* (each user registers with an email of their own)
create_user ==
    /\ \E u \in Usernames \ DOMAIN users, p \in Passwords :
         users' = users @@ (u :> [username |-> u,
                                  password_hash |-> get_password_hash(p),
                                  is_active |-> TRUE])
    /\ UNCHANGED auth_result
    /\ UNCHANGED <<svars, evars, cvars>>

\* update_user_password
update_user_password ==
    /\ \E u \in DOMAIN users, p \in Passwords :
         users' = [users EXCEPT ![u].password_hash = get_password_hash(p)]
    /\ UNCHANGED auth_result
    /\ UNCHANGED <<svars, evars, cvars>>

\* deactivate_user
deactivate_user ==
    /\ \E u \in DOMAIN users : users' = [users EXCEPT ![u].is_active = FALSE]
    /\ UNCHANGED auth_result
    /\ UNCHANGED <<svars, evars, cvars>>

\* `if user and self.verify_password(password, user.password_hash)`
Authenticated(username, password) ==
    /\ username \in DOMAIN users
    /\ verify_password(password, users[username].password_hash)

\* authenticate_user: the user row, or None (also when the query raises)
authenticate_user ==
    /\ \E u \in Usernames, p \in Passwords, db_ok \in BOOLEAN :
         auth_result' =
             IF db_ok /\ Authenticated(u, p)
             THEN [called |-> TRUE, username |-> u, password |-> p,
                   returned |-> TRUE, user |-> users[u]]
             ELSE [called |-> TRUE, username |-> u, password |-> p,
                   returned |-> FALSE]
    /\ UNCHANGED users
    /\ UNCHANGED <<svars, evars, cvars>>

NextAuth ==
    \/ create_user
    \/ update_user_password
    \/ deactivate_user
    \/ authenticate_user

SpecAuth == InitEngine /\ [][NextAuth]_vars

\* C17: authenticate_user returns a user only if the user exists, the password
\* verifies against the stored hash and the user is active
C17_AuthenticateOnlyActive ==
    (auth_result.called /\ auth_result.returned)
        => /\ auth_result.user.username = auth_result.username
           /\ verify_password(auth_result.password, auth_result.user.password_hash)
           /\ auth_result.user.is_active

-----------------------------------------------------------------------------
(* Regular investment runs that run short of cash *)

\* two funds, 1000 of cash, instalments of 450 or 1000, allocations in both
\* orders, with a fund left out, and absent
RegularLegConfigs ==
    { [initial_amount |-> R(1000), fund_codes |-> <<"f1", "f2">>,
       strategy_params |-> [strategy_type |-> "regular_investment",
                            investment_amount |-> a, fee_rate |-> Zero,
                            fund_allocation |-> l]] @@ x :
        a \in {R(450), R(1000)},
        l \in { <<>>, << Leg("f1", One) >>,
                << Leg("f1", One), Leg("f2", Q(1, 2)) >>,
                << Leg("f2", Q(1, 2)), Leg("f1", One) >> },
        x \in Attrs }

InitRegular ==
    /\ config \in RegularLegConfigs
    /\ config0 = config
    /\ strategy = "regular_investment"
    /\ spc = "call"
    /\ historical_data = <<>>
    /\ investment_dates = {}
    /\ fund_allocation = <<>>
    /\ cash = Zero
    /\ holdings = [f \in Funds |-> Zero]
    /\ period = 0
    /\ transactions = <<>>
    /\ portfolio_values = <<>>
    /\ result = [k \in {} |-> Zero]
    /\ EngineInitial
    /\ AuthInitial
    /\ ScheduleInitial
    /\ CalendarInitial

NextRegular ==
    \/ StrategyAttributeError
    \/ StrategyStart
    \/ RegularDay
    \/ StrategyFinish

SpecRegular == InitRegular /\ [][NextRegular]_vars

\* the legs of fund_allocation that recorded a transaction in this step
ExecutedLegs ==
    LET new == SubSeq(transactions', Len(transactions) + 1, Len(transactions'))
    IN  { i \in DOMAIN fund_allocation :
            \E k \in DOMAIN new : new[k].fund_code = fund_allocation[i].fund_code }

\* cash debited by leg i when it executes
LegCash(i) ==
    RMul(config0.strategy_params["investment_amount"], fund_allocation[i].allocation)

\* cash at the moment leg i is considered
CashBeforeLeg(i) ==
    RSub(cash, SumOver([j \in DOMAIN fund_allocation |->
                           IF j < i /\ j \in ExecutedLegs THEN LegCash(j) ELSE Zero],
                       DOMAIN fund_allocation))

\* C18 (step): on a trading day of a regular investment run, leg i executes iff
\* the day is scheduled, its weight is positive, its fund has a positive NAV and
\* the cash left by the earlier legs covers it; the other legs change nothing
C18_Step ==
    (spc = "loop" /\ strategy = "regular_investment"
       /\ Len(historical_data') = Today + 1) =>
        LET row == historical_data'[Today + 1]
            scheduled == (Today + 1) \in investment_dates'
        IN  /\ \A i \in DOMAIN fund_allocation :
                 (i \in ExecutedLegs) <=>
                     /\ scheduled
                     /\ RLt(Zero, fund_allocation[i].allocation)
                     /\ row[fund_allocation[i].fund_code] > 0
                     /\ RLe(LegCash(i), CashBeforeLeg(i))
            /\ Len(transactions') - Len(transactions) = Cardinality(ExecutedLegs)
            /\ cash' = CashBeforeLeg(Len(fund_allocation) + 1)
            /\ \A f \in Funds :
                 (\A i \in ExecutedLegs : fund_allocation[i].fund_code # f)
                     => holdings'[f] = holdings[f]

\* C18: the step property, and cash >= 0 in every state of a regular
\* investment run
C18_RegularLegIff ==
    /\ [][C18_Step]_vars
    /\ []((InRun /\ strategy = "regular_investment") => RLe(Zero, cash))

\* on one date the first leg was skipped for lack of cash and the second executed
C18_Witness ==
    /\ InRun
    /\ strategy = "regular_investment"
    /\ Len(fund_allocation) = 2
    /\ \E d \in 1..Today :
         /\ d \in investment_dates
         /\ historical_data[d][fund_allocation[1].fund_code] > 0
         /\ \A i \in TransactionsOn(d) :
                transactions[i].fund_code = fund_allocation[2].fund_code
         /\ TransactionsOn(d) # {}
         /\ RLt(Zero, fund_allocation[1].allocation)

-----------------------------------------------------------------------------
(* The amount field of the recorded transactions *)

\* C19: the amount of every recorded transaction is the cash value of the leg
\* before fees: for a buy the cash debited, of which the share 1 - fee_rate
\* bought the shares at nav_price; for a sell, shares sold x nav_price
C19_AmountBeforeFees ==
    InRun =>
        \A i \in DOMAIN transactions :
            LET tx == transactions[i]
                traded == RMul(tx.shares, R(tx.nav_price))
            IN  IF tx.action = "buy"
                THEN RMul(tx.amount, RSub(One, FeeRate)) = traded
                ELSE tx.amount = traded

-----------------------------------------------------------------------------
(* Value averaging over a schedule with dates that have no NAV row *)

\* investment dates of one run that fall on a weekday without a NAV row
MaxOffDays == 1

\* two funds whose weights sum to 1.5, a first purchase of 2.1
OverweightConfigs ==
    { [initial_amount |-> R(100), fund_codes |-> <<"f1", "f2">>,
       strategy_params |-> [strategy_type |-> "value_averaging",
                            base_investment |-> R(10), fee_rate |-> Zero,
                            target_value_growth_rate |-> Q(1, 2),
                            max_investment_multiplier |-> Q(21, 100),
                            min_investment_multiplier |-> Q(1, 10),
                            fund_allocation |->
                                << Leg("f1", One), Leg("f2", Q(1, 2)) >>]] @@ x :
        x \in Attrs }

ScheduleConfigs ==
    OverweightConfigs \cup
    { [initial_amount |-> a, fund_codes |-> <<"f1">>,
       strategy_params |-> [strategy_type |-> "value_averaging",
                            base_investment |-> R(10), fee_rate |-> Zero,
                            target_value_growth_rate |-> g,
                            max_investment_multiplier |-> mx,
                            min_investment_multiplier |-> Q(1, 10),
                            fund_allocation |-> << Leg("f1", One) >>]] @@ x :
        a \in {R(25), R(100)}, g \in {Zero, Q(9, 20), Q(1, 2)},
        mx \in {Q(1, 5), R(3)}, x \in Attrs }

InitSchedule ==
    /\ config \in ScheduleConfigs
    /\ config0 = config
    /\ strategy = "value_averaging"
    /\ spc = "call"
    /\ historical_data = <<>>
    /\ investment_dates = {}
    /\ fund_allocation = <<>>
    /\ cash = Zero
    /\ holdings = [f \in Funds |-> Zero]
    /\ period = 0
    /\ transactions = <<>>
    /\ portfolio_values = <<>>
    /\ result = [k \in {} |-> Zero]
    /\ EngineInitial
    /\ AuthInitial
    /\ ScheduleInitial
    /\ CalendarInitial

\* _generate_investment_dates appends every weekday it steps on; one that is
\* not in historical_data.index is never met by `for trading_day in
\* historical_data.index`, so the run's state is left as it is
ScheduleDateWithoutNav ==
    /\ spc = "loop"
    /\ Cardinality({ i \in DOMAIN schedule : schedule[i] = 0 }) < MaxOffDays
    /\ schedule' = Append(schedule, 0)
    /\ UNCHANGED <<strategy, config, config0, spc, historical_data, investment_dates,
                   fund_allocation, cash, holdings, period, transactions,
                   portfolio_values, result>>
    /\ UNCHANGED <<evars, avars, cvars>>

NextSchedule ==
    \/ StrategyAttributeError
    \/ StrategyStart
    \/ ScheduleDateWithoutNav
    \/ ValueAveragingDay
    \/ StrategyFinish

SpecSchedule == InitSchedule /\ [][NextSchedule]_vars

\* C20 (step): on a trading day of a value averaging run that is the k-th date
\* of the schedule, the period index becomes k and the trade is the one decided
\* from target(k) and the value of cash and holdings before the trade; on a
\* day that is not scheduled the period index and the portfolio are unchanged
C20_Step ==
    (spc = "loop" /\ strategy = "value_averaging"
       /\ Len(historical_data') = Today + 1) =>
        LET d == Today + 1
            row == historical_data'[d]
            k == Len(schedule')
            before == RAdd(cash, calculate_portfolio_value(holdings, row))
        IN  IF d \in investment_dates'
            THEN /\ period' = period + 1
                 /\ period' = k
                 /\ [cash |-> cash', holdings |-> holdings',
                     transactions |-> transactions']
                        = ValueDecision(RunState, fund_allocation, row, d, k,
                                        before, config)
            ELSE /\ period' = period
                 /\ UNCHANGED <<cash, holdings, transactions>>

\* C20: the period index of a decision is the position of its date in the schedule
C20_PeriodIsScheduleIndex == [][C20_Step]_vars

-----------------------------------------------------------------------------
(* The decision of a value averaging date *)

\* required_investment of the decision taken on the row that this step appends
Required ==
    LET row == historical_data'[Today + 1]
        params == config.strategy_params
    IN  RSub(TargetValue(config.initial_amount, params["base_investment"],
                         Get(params, "target_value_growth_rate", Q(1, 100)),
                         period + 1),
             RAdd(cash, calculate_portfolio_value(holdings, row)))

\* the required amount clamped to base_investment x [min, max] multiplier
Clamped ==
    LET params == config.strategy_params
        base_investment == params["base_investment"]
    IN  ClampInvestment(Required,
            RMul(base_investment, Get(params, "min_investment_multiplier", Q(1, 10))),
            RMul(base_investment, Get(params, "max_investment_multiplier", R(3))))

\* this step is the decision of a scheduled date of a value averaging run
ValueDate ==
    /\ spc = "loop"
    /\ strategy = "value_averaging"
    /\ Len(historical_data') = Today + 1
    /\ (Today + 1) \in investment_dates'

\* the weights sum to 1 and every weighted fund has a positive NAV on the row
FullyInvestable ==
    LET row == historical_data'[Today + 1]
    IN  /\ SumOver([i \in DOMAIN fund_allocation |-> fund_allocation[i].allocation],
                   DOMAIN fund_allocation) = One
        /\ \A i \in DOMAIN fund_allocation :
               RLt(Zero, fund_allocation[i].allocation)
                   => row[fund_allocation[i].fund_code] > 0

\* C21 (step): on a scheduled date with required > 0, weights summing to 1 and
\* positive NAVs, the cash deployed is min(available cash, clamped amount)
C21_Step ==
    (ValueDate /\ RLt(Zero, Required) /\ FullyInvestable /\ RLt(Zero, cash))
        => RSub(cash, cash') = RMin(cash, Clamped)

\* C21: a value averaging buy deploys min(available cash, clamped required amount)
C21_BuyCappedByCash == [][C21_Step]_vars

\* required <= 0 and |required| <= 0.1 x base_investment
InDeadBand ==
    /\ RLe(Required, Zero)
    /\ RLe(RAbs(Required), RMul(config.strategy_params["base_investment"], Q(1, 10)))

\* the transactions this step records
NewTransactions ==
    { transactions'[i] : i \in (Len(transactions) + 1)..Len(transactions') }

\* C22 (step): a scheduled date inside the dead band records nothing and leaves
\* cash and holdings alone; a sell is recorded only outside it, with required < 0
C22_Step ==
    ValueDate =>
        /\ InDeadBand => UNCHANGED <<cash, holdings, transactions>>
        /\ (\E tx \in NewTransactions : tx.action = "sell")
               => RLt(Required, Zero) /\ ~InDeadBand

\* C22: no trade inside the dead band, sells only beyond it
C22_DeadBand == [][C22_Step]_vars

\* the second scheduled date was decided with |required| exactly
\* 0.1 x base_investment, after a purchase on the first, and recorded nothing
C22_Witness ==
    /\ InRun
    /\ strategy = "value_averaging"
    /\ Today >= 2
    /\ Today \in investment_dates
    /\ period = 2
    /\ Len(transactions) = 1
    /\ transactions[1].date < Today
    /\ LET value == RAdd(cash, calculate_portfolio_value(holdings, historical_data[Today]))
           target == TargetValue(config.initial_amount,
                                 config.strategy_params["base_investment"],
                                 config.strategy_params["target_value_growth_rate"], 2)
       IN  RSub(target, value) = R(-1)

\* pre-fee value of the shares sold by the transactions this step records
SoldValue ==
    LET new == (Len(transactions) + 1)..Len(transactions')
    IN  SumOver([i \in new |->
                    IF transactions'[i].action = "sell"
                    THEN RMul(transactions'[i].shares, R(transactions'[i].nav_price))
                    ELSE Zero], new)

\* C23 (step): the shares sold on a scheduled date that sells are worth, before
\* fees, at most min(|required|, 0.2 x current_value)
C23_Step ==
    (ValueDate /\ RLt(Zero, SoldValue)) =>
        LET row == historical_data'[Today + 1]
            current_value == RAdd(cash, calculate_portfolio_value(holdings, row))
        IN  RLe(SoldValue, RMin(RAbs(Required), RMul(current_value, Q(1, 5))))

\* C23: the sale of one date never exceeds the 20% cap nor |required|
C23_SellCap == [][C23_Step]_vars

-----------------------------------------------------------------------------
(* Investment dates as calendar dates: BacktestEngine._generate_investment_dates,
   BaseStrategy.get_nearest_trading_day, validate_investment_schedule *)

\* longest date range of a run, in days
MaxSpan == 35

\* a date is its ordinal: 1 is 1 January of the first of two years of 365 days
DaysInMonth == <<31, 28, 31, 30, 31, 30, 31, 31, 30, 31, 30, 31>>

RECURSIVE DaysBefore(_)
DaysBefore(m) == IF m = 1 THEN 0 ELSE DaysBefore(m - 1) + DaysInMonth[m - 1]

Ordinal(y, m, d) == y * 365 + DaysBefore(m) + d

YearOf(n) == (n - 1) \div 365

DayOfYear(n) == ((n - 1) % 365) + 1

MonthOf(n) ==
    CHOOSE m \in 1..12 :
        DaysBefore(m) < DayOfYear(n) /\ DayOfYear(n) <= DaysBefore(m) + DaysInMonth[m]

DayOf(n) == DayOfYear(n) - DaysBefore(MonthOf(n))

\* date.weekday(): 0 is Monday; 1 January of the first year is a Wednesday
Weekday(n) == (n + 1) % 7

\* date.replace(year=y, month=m) raises ValueError when the day does not exist
ReplaceRaises(n, m) == DayOf(n) > DaysInMonth[m]

\* current_date.replace(month=month + 1), or year + 1 and month 1 in December
NextMonth(n) ==
    IF MonthOf(n) = 12 THEN Ordinal(YearOf(n) + 1, 1, DayOf(n))
    ELSE Ordinal(YearOf(n), MonthOf(n) + 1, DayOf(n))

\* Wednesday 29, Thursday 30, Friday 31 January; Saturday 4 and Monday 6
\* January; Monday 31 March; Monday 15 December
StartDates ==
    { Ordinal(0, 1, 29), Ordinal(0, 1, 30), Ordinal(0, 1, 31), Ordinal(0, 1, 4),
      Ordinal(0, 1, 6), Ordinal(0, 3, 31), Ordinal(0, 12, 15) }

\* rows exist for the weekdays of the range that are not market holidays
InitCalendar ==
    /\ \E s \in StartDates, k \in {1, 8, MaxSpan},
          f \in {"daily", "weekly", "monthly"} :
       \E closed \in SUBSET {s, s + 1, s + 7} :
         /\ gen = [pc |-> "loop", start_date |-> s, end_date |-> s + k,
                   investment_frequency |-> f, current_date |-> s, dates |-> <<>>]
         /\ nav_dates = { d \in s..(s + k) : Weekday(d) < 5 /\ d \notin closed }
    /\ nav_dates # {}
    /\ valid_dates = <<>>
    /\ config = NoConfig
    /\ config0 = config
    /\ strategy = "regular_investment"
    /\ spc = "idle"
    /\ historical_data = <<>>
    /\ investment_dates = {}
    /\ schedule = <<>>
    /\ fund_allocation = <<>>
    /\ cash = Zero
    /\ holdings = [f \in Funds |-> Zero]
    /\ period = 0
    /\ transactions = <<>>
    /\ portfolio_values = <<>>
    /\ result = [k \in {} |-> Zero]
    /\ EngineInitial
    /\ AuthInitial

\* one iteration of `while current_date <= config.end_date`, or its exit
generate_investment_dates ==
    /\ gen.pc = "loop"
    /\ IF gen.current_date > gen.end_date
       THEN gen' = [gen EXCEPT !.pc = "returned"]
       ELSE LET c == gen.current_date
                appended == IF Weekday(c) < 5 THEN Append(gen.dates, c) ELSE gen.dates
            IN  CASE gen.investment_frequency = "daily" ->
                       gen' = [gen EXCEPT !.dates = appended, !.current_date = c + 1]
                  [] gen.investment_frequency = "weekly" ->
                       gen' = [gen EXCEPT !.dates = appended, !.current_date = c + 7]
                  [] gen.investment_frequency = "monthly" ->
                       IF ReplaceRaises(c, IF MonthOf(c) = 12 THEN 1 ELSE MonthOf(c) + 1)
                       THEN gen' = [gen EXCEPT !.dates = appended, !.pc = "raised"]
                       ELSE gen' = [gen EXCEPT !.dates = appended,
                                               !.current_date = NextMonth(c)]
    /\ UNCHANGED <<nav_dates, valid_dates>>
    /\ UNCHANGED <<svars, evars, avars>>

\* _execute_backtest: strategy.execute_backtest(config, historical_data,
\* investment_dates) receives the list as it was generated
hand_over ==
    /\ gen.pc = "returned"
    /\ gen' = [gen EXCEPT !.pc = "handed"]
    /\ UNCHANGED <<nav_dates, valid_dates>>
    /\ UNCHANGED <<svars, evars, avars>>

\* is_trading_day
is_trading_day(d, index) == d \in index

\* get_nearest_trading_day over the ascending index
get_nearest_trading_day(target_date, index) ==
    IF target_date \in index THEN target_date
    ELSE IF \E d \in index : d < target_date
         THEN CHOOSE d \in index :
                  d < target_date /\ \A e \in index : e < target_date => e <= d
         ELSE IF index # {}
              THEN CHOOSE d \in index : \A e \in index : d <= e
              ELSE target_date

RECURSIVE ValidDates(_, _, _)
\* the loop of validate_investment_schedule from position i
ValidDates(i, ds, index) ==
    IF i > Len(ds) THEN <<>>
    ELSE LET trading_day == get_nearest_trading_day(ds[i], index)
         IN  IF is_trading_day(trading_day, index)
             THEN <<trading_day>> \o ValidDates(i + 1, ds, index)
             ELSE ValidDates(i + 1, ds, index)

validate_investment_schedule ==
    /\ gen.pc = "returned"
    /\ valid_dates' = ValidDates(1, gen.dates, nav_dates)
    /\ gen' = [gen EXCEPT !.pc = "validated"]
    /\ UNCHANGED nav_dates
    /\ UNCHANGED <<svars, evars, avars>>

NextCalendar ==
    \/ generate_investment_dates
    \/ hand_over
    \/ validate_investment_schedule

SpecCalendar == InitCalendar /\ [][NextCalendar]_vars

\* C24: every candidate date is snapped to the latest date of the NAV index
\* that is not after it, never to a later date
C24_SnapsBackward ==
    gen.pc = "validated" =>
        /\ Len(valid_dates) = Len(gen.dates)
        /\ \A i \in DOMAIN valid_dates :
             /\ valid_dates[i] \in nav_dates
             /\ valid_dates[i] <= gen.dates[i]
             /\ \A d \in nav_dates : d <= gen.dates[i] => d <= valid_dates[i]

\* C25: the list handed to execute_backtest is ascending and holds only dates
\* of the NAV index, so every generated date is met by the strategy's loop
C25_HandedScheduleIsTradingDays ==
    gen.pc = "handed" =>
        /\ \A i, j \in DOMAIN gen.dates : i < j => gen.dates[i] < gen.dates[j]
        /\ \A i \in DOMAIN gen.dates : gen.dates[i] \in nav_dates

\* C30: _generate_investment_dates never raises, and the list it builds is
\* strictly ascending and holds only weekdays of [start_date, end_date]
C30_GeneratesWithoutError ==
    /\ gen.pc # "raised"
    /\ gen.pc # "idle" =>
         /\ \A i, j \in DOMAIN gen.dates : i < j => gen.dates[i] < gen.dates[j]
         /\ \A i \in DOMAIN gen.dates :
              /\ Weekday(gen.dates[i]) < 5
              /\ gen.start_date <= gen.dates[i]
              /\ gen.dates[i] <= gen.end_date

\* C27: cash >= 0 in every state of a value averaging run
C27_ValueAveragingCashNonNegative ==
    (InRun /\ strategy = "value_averaging") => RLe(Zero, cash)

\* sum of the amounts of the buy transactions
BuyAmounts ==
    SumOver([i \in DOMAIN transactions |->
                IF transactions[i].action = "buy" THEN transactions[i].amount ELSE Zero],
            DOMAIN transactions)

\* C28: total_invested of the result is the sum of the amounts of the buys only
C28_TotalInvestedIsBuys ==
    spc = "done" => result.total_invested = BuyAmounts

-----------------------------------------------------------------------------
(* Further properties of run_backtest *)

\* every invocation made so far was accepted by a started engine and has returned
AllReturned ==
    /\ \A r \in Slots : run[r].pc \in {"idle", "returned"}
    /\ Cardinality({ r \in Slots : run[r].pc = "returned" }) = calls

\* C26: once N invocations have all returned, total_backtests =
\* successful_backtests + failed_backtests = N
C26_CountersAddUp ==
    AllReturned =>
        /\ stats.total_backtests = stats.successful_backtests + stats.failed_backtests
        /\ stats.total_backtests = calls

====
